---- MODULE Spec2Model ----
(***************************************************************************)
(* State-machine model of GatewayWebSocketServer                           *)
(* (src/core/gateway_server.py): the listener's process_request hook, the  *)
(* authentication gate and receive loop of _handle_connection, the         *)
(* normalisation and backend round trip of _handle_message, and the        *)
(* default thread pool asyncio.to_thread hands _call_openai to.            *)
(*                                                                         *)
(* Python values are tagged records, so that None, strings, lists and      *)
(* dicts stay distinct and Python truthiness can be computed:              *)
(*   [t |-> "none"], [t |-> "str", s |-> ..], [t |-> "list", l |-> ..],    *)
(*   [t |-> "dict", d |-> <record>].                                       *)
(* The module's strings are ASCII: the Chinese literals of the source are  *)
(* rendered in English.                                                    *)
(***************************************************************************)
EXTENDS Naturals, Sequences, FiniteSets

\* ---------------------------------------------------------------- bounds
\* Number of connections the clients open.
MaxConns == 2
\* Number of frames all clients together send.
MaxFrames == 2
\* Worker threads of the executor behind asyncio.to_thread.
PoolSize == 1

Conns == 1..MaxConns

\* ---------------------------------------------------------- Python values
None == [t |-> "none"]
Str(s) == [t |-> "str", s |-> s]
List(l) == [t |-> "list", l |-> l]
Dict(d) == [t |-> "dict", d |-> d]
JSONDecodeError == [t |-> "JSONDecodeError"]

\* bool(v) of Python, for the value shapes that occur.
Truthy(v) ==
    CASE v.t = "none" -> FALSE
      [] v.t = "str" -> v.s # ""
      [] v.t = "list" -> Len(v.l) > 0
      [] v.t = "dict" -> DOMAIN v.d # {}
      [] OTHER -> TRUE

\* a or b of Python.
Or(a, b) == IF Truthy(a) THEN a ELSE b

\* d.get(k) of a Python dict.
Get(dict, k) == IF k \in DOMAIN dict.d THEN dict.d[k] ELSE None

\* ------------------------------------------------------------ the inputs
\* Values of the Connection header of an incoming HTTP request ("" when the
\* request has none: request_headers.headers.get("connection", "")).
ConnectionHeaders == {"", "Upgrade", "upgrade", "keep-alive, Upgrade"}

\* str.lower() on the header values above.
Lower(s) ==
    CASE s = "Upgrade" -> "upgrade"
      [] s = "keep-alive, Upgrade" -> "keep-alive, upgrade"
      [] OTHER -> s

\* An incoming request: its Connection header, and whether it is a WebSocket
\* opening handshake the websockets library can complete.
Requests ==
    {request \in [connection : ConnectionHeaders, websocket : BOOLEAN] :
        request.websocket => request.connection # ""}

\* The requests of the runs with several connections: a plain HTTP request
\* and a WebSocket opening handshake.
FewRequests ==
    { [connection |-> "", websocket |-> FALSE],
      [connection |-> "Upgrade", websocket |-> TRUE] }

\* What the client asked for: a WebSocket upgrade request is an opening
\* handshake whose Connection header names the upgrade token, alone or among
\* others, in any case; every other request is a plain HTTP request.
RequestKind(request) ==
    IF request.websocket /\ request.connection \in {"Upgrade", "upgrade", "keep-alive, Upgrade"}
    THEN "websocket upgrade"
    ELSE "other"

\* headers.get("device-id"): None when the header is absent.
DeviceIds == {None, Str(""), Str("A"), Str("B"), Str("C")}

\* gateway.require_device_id and gateway.allowed_devices of the configuration.
Policies == [require_device_id : BOOLEAN, allowed_devices : {{}, {"A", "B"}}]

\* The policy of the runs with several connections: require_device_id at its
\* default (line 46) and two allowed devices.
StrictPolicy == [require_device_id |-> TRUE, allowed_devices |-> {"A", "B"}]

\* The text frames the clients send, as raw text.
TextFrames ==
    { "hello",
      "",
      "[1]",
      "{\"request_id\":\"42\"}",
      "{\"text\":\"hi\",\"request_id\":\"42\"}",
      "{\"text\":\"hi\",\"request_id\":\"\"}",
      "{\"messages\":[{\"role\":\"user\",\"content\":\"x\"}]}",
      "{\"messages\":[],\"content\":\"c\",\"prompt\":\"p\",\"request_id\":\"7\"}" }

\* A received WebSocket message: bytes (binary frame) or str (text frame).
BinaryFrame == [bytes |-> TRUE, data |-> "00ff"]
TextFrame(text) == [bytes |-> FALSE, data |-> text]
Frames == {TextFrame(text) : text \in TextFrames} \cup {BinaryFrame}

\* The frames of the runs with several connections: a valid request and a
\* binary frame.
FewFrames ==
    { TextFrame("{\"text\":\"hi\",\"request_id\":\"42\"}"),
      BinaryFrame }

\* The text frames of the runs that exercise the normalizer: plain text,
\* JSON that is not an object, and envelopes with every combination of
\* messages and flat text fields that _handle_message tells apart.
EnvelopeTexts ==
    { "hello",
      "",
      "[1]", "7", "\"hi\"", "true", "null",
      "{}",
      "{\"messages\":[],\"text\":\"\"}",
      "{\"prompt\":\"p\"}",
      "{\"messages\":\"m\",\"text\":\"t\"}",
      "{\"text\":\"\",\"content\":\"c\",\"prompt\":\"p\"}",
      "{\"text\":\"t\",\"content\":\"c\",\"prompt\":\"p\"}",
      "{\"messages\":[{\"role\":\"system\",\"content\":\"s\"},{\"role\":\"user\",\"content\":\"x\"}],\"text\":\"t\"}" }
EnvelopeFrames == {TextFrame(text) : text \in EnvelopeTexts}

\* What the upstream chat-completion service does with one request.
Upstreams == {"APITimeoutError", "no_choices", "no_message", "null_content", "pong"}
FewUpstreams == {"APITimeoutError", "pong"}

\* json.loads on the text frames above: the parsed value, or JSONDecodeError.
json_loads(text) ==
    CASE text = "[1]" -> List(<<[t |-> "int", n |-> 1]>>)
      [] text = "{\"request_id\":\"42\"}" -> Dict([request_id |-> Str("42")])
      [] text = "{\"text\":\"hi\",\"request_id\":\"42\"}" ->
            Dict([text |-> Str("hi"), request_id |-> Str("42")])
      [] text = "{\"text\":\"hi\",\"request_id\":\"\"}" ->
            Dict([text |-> Str("hi"), request_id |-> Str("")])
      [] text = "{\"messages\":[{\"role\":\"user\",\"content\":\"x\"}]}" ->
            Dict([messages |-> List(<<Dict([role |-> Str("user"), content |-> Str("x")])>>)])
      [] text = "{\"messages\":[],\"content\":\"c\",\"prompt\":\"p\",\"request_id\":\"7\"}" ->
            Dict([messages |-> List(<<>>), content |-> Str("c"), prompt |-> Str("p"),
                  request_id |-> Str("7")])
      [] text = "7" -> [t |-> "int", n |-> 7]
      [] text = "\"hi\"" -> Str("hi")
      [] text = "true" -> [t |-> "bool", b |-> TRUE]
      [] text = "null" -> None
      [] text = "{}" -> Dict(<<>>)
      [] text = "{\"messages\":[],\"text\":\"\"}" ->
            Dict([messages |-> List(<<>>), text |-> Str("")])
      [] text = "{\"prompt\":\"p\"}" -> Dict([prompt |-> Str("p")])
      [] text = "{\"messages\":\"m\",\"text\":\"t\"}" ->
            Dict([messages |-> Str("m"), text |-> Str("t")])
      [] text = "{\"text\":\"\",\"content\":\"c\",\"prompt\":\"p\"}" ->
            Dict([text |-> Str(""), content |-> Str("c"), prompt |-> Str("p")])
      [] text = "{\"text\":\"t\",\"content\":\"c\",\"prompt\":\"p\"}" ->
            Dict([text |-> Str("t"), content |-> Str("c"), prompt |-> Str("p")])
      [] text = "{\"messages\":[{\"role\":\"system\",\"content\":\"s\"},{\"role\":\"user\",\"content\":\"x\"}],\"text\":\"t\"}" ->
            Dict([messages |-> List(<<Dict([role |-> Str("system"), content |-> Str("s")]),
                                      Dict([role |-> Str("user"), content |-> Str("x")])>>),
                  text |-> Str("t")])
      [] OTHER -> JSONDecodeError

\* ------------------------------------------------------- pure functions
\* _http_response: None lets the opening handshake go on.
HealthCheck == [status |-> 200, body |-> "Gateway is running\n"]

http_response(request) ==
    IF Lower(request.connection) = "upgrade" THEN None ELSE HealthCheck

\* device_id not in self.allowed_devices
NotInAllowed(dev, allowed) == ~(dev.t = "str" /\ dev.s \in allowed)

\* The authentication gate of _handle_connection: the error it rejects the
\* connection with, or "accept".
MISSING_DEVICE_ID == "device-id missing, connection refused."
UNAUTHORIZED_DEVICE_ID == "device-id not authorized."

\* Faulty variant: the allow-list check is forgotten.
gate_without_allow_list(require, allowed, dev) ==
    IF require /\ ~Truthy(dev) THEN MISSING_DEVICE_ID ELSE "accept"

\* Faulty variant: the allow-list is consulted only when an id was supplied.
gate_allow_list_for_supplied_ids(require, allowed, dev) ==
    IF require /\ ~Truthy(dev) THEN MISSING_DEVICE_ID
    ELSE IF allowed # {} /\ Truthy(dev) /\ NotInAllowed(dev, allowed)
         THEN UNAUTHORIZED_DEVICE_ID
    ELSE "accept"

gate(require, allowed, dev) ==
    IF require /\ ~Truthy(dev) THEN MISSING_DEVICE_ID
    ELSE IF allowed # {} /\ NotInAllowed(dev, allowed) THEN UNAUTHORIZED_DEVICE_ID
    ELSE "accept"

\* Faulty variant: JSON that is not an object is wrapped like unparsable text.
parse_payload_wraps_non_objects(message) ==
    LET parsed == json_loads(message)
    IN  IF parsed # JSONDecodeError /\ parsed.t = "dict" THEN parsed
        ELSE Dict([text |-> Str(message)])

\* Faulty variant: text that is not JSON is refused instead of wrapped.
parse_payload_strict(message) ==
    LET parsed == json_loads(message)
    IN  IF parsed # JSONDecodeError /\ parsed.t = "dict" THEN parsed
        ELSE None

\* _parse_payload
parse_payload(message) ==
    LET parsed == json_loads(message)
    IN  IF parsed = JSONDecodeError THEN Dict([text |-> Str(message)])
        ELSE IF parsed.t = "dict" THEN parsed
        ELSE None

ONLY_TEXT == "only text messages are supported."
INVALID_FORMAT == "invalid message format."
MISSING_CONTENT == "missing messages or text field."

\* The request_id _handle_message echoes: payload.get("request_id").
request_id_of(payload) == Get(payload, "request_id")

\* _handle_message up to the backend call: either the error it answers the
\* frame with, or the turn sequence and request_id it calls the backend with.
normalize(message) ==
    IF message.bytes THEN [error |-> ONLY_TEXT]
    ELSE LET payload == parse_payload(message.data)
         IN  IF payload = None THEN [error |-> INVALID_FORMAT]
             ELSE LET messages == Get(payload, "messages")
                      text == Or(Or(Get(payload, "text"), Get(payload, "content")),
                                 Get(payload, "prompt"))
                  IN  IF Truthy(messages)
                      THEN [messages |-> messages, request_id |-> request_id_of(payload)]
                      ELSE IF ~Truthy(text) THEN [error |-> MISSING_CONTENT]
                      ELSE [messages |-> List(<<Dict([role |-> Str("user"), content |-> text])>>),
                            request_id |-> request_id_of(payload)]

IsError(n) == "error" \in DOMAIN n

\* The payload _send_error serialises.
error_payload(message, request_id) ==
    IF Truthy(request_id)
    THEN [type |-> "error", message |-> message, request_id |-> request_id]
    ELSE [type |-> "error", message |-> message]

\* The response_payload _handle_message serialises.
response_payload(dev, response_text, request_id) ==
    IF Truthy(request_id)
    THEN [type |-> "response", device_id |-> dev, content |-> Str(response_text),
          request_id |-> request_id]
    ELSE [type |-> "response", device_id |-> dev, content |-> Str(response_text)]

\* client.chat.completions.create against an upstream that behaves as
\* `upstream`: the response object (the exception is raised in call_openai).
create(upstream) ==
    CASE upstream = "no_choices" -> [choices |-> <<>>]
      [] upstream = "no_message" -> [choices |-> <<[message |-> None]>>]
      [] upstream = "null_content" -> [choices |-> <<[message |-> [content |-> None]]>>]
      [] OTHER -> [choices |-> <<[message |-> [content |-> Str("pong")]]>>]

\* _call_openai: the text it returns, or the exception create() raises.
call_openai(messages, upstream) ==
    IF upstream = "APITimeoutError" THEN [raised |-> "Request timed out."]
    ELSE LET response == create(upstream)
             choice == IF Len(response.choices) > 0 THEN response.choices[1] ELSE None
         IN  IF choice # None /\ choice.message # None
             THEN [text |-> IF Truthy(choice.message.content)
                            THEN choice.message.content.s ELSE ""]
             ELSE [text |-> ""]

Raised(r) == "raised" \in DOMAIN r

BACKEND_FAILED == "OpenAI request failed: "

VARIABLES
    require_device_id,  \* self.require_device_id
    allowed_devices,    \* self.allowed_devices
    http,               \* per connection: the kind of request that came in (history)
                        \* and what the listener answered it with
    pc,                 \* per connection: where its _handle_connection task stands
    device_id,          \* per connection: headers.get("device-id")
    transport,          \* per connection: "none", "open", "client closed", "server closed"
    received,           \* per connection: the frames that arrived, in order
    nread,              \* per connection: how many of them the receive loop has read
    sent,               \* per connection: the frames the gateway sent, in order
    auth,               \* history, per connection: what the gate decided
    queue,              \* to_thread calls waiting for a worker thread
    running,            \* to_thread calls a worker thread is executing
    calls               \* history: every _call_openai dispatched

vars == <<require_device_id, allowed_devices, http, pc, device_id, transport,
          received, nread, sent, auth, queue, running, calls>>

\* ------------------------------------------------------------------ state
Start(policies) ==
    /\ \E p \in policies :
         /\ require_device_id = p.require_device_id
         /\ allowed_devices = p.allowed_devices
    /\ http = [c \in Conns |-> [request |-> "none", response |-> "none"]]
    /\ pc = [c \in Conns |-> "connecting"]
    /\ device_id = [c \in Conns |-> None]
    /\ transport = [c \in Conns |-> "none"]
    /\ received = [c \in Conns |-> <<>>]
    /\ nread = [c \in Conns |-> 0]
    /\ sent = [c \in Conns |-> <<>>]
    /\ auth = [c \in Conns |-> "none"]
    /\ queue = <<>>
    /\ running = {}
    /\ calls = {}

\* Several connections under the strict policy.
Init == Start({StrictPolicy})

\* One connection under every policy.
InitSession == Start(Policies)

policy == <<require_device_id, allowed_devices>>
pool == <<queue, running, calls>>

\* Frames sent by all clients so far.
RECURSIVE SumReceived(_)
SumReceived(S) ==
    IF S = {} THEN 0
    ELSE LET c == CHOOSE x \in S : TRUE
         IN  Len(received[c]) + SumReceived(S \ {c})

\* Faulty variant: _call_openai is called on the event loop, which it blocks
\* from dispatch to return.
loop_blocked_by_call == queue # <<>> \/ running # {}

\* Whether a backend call occupies the event loop: never, since
\* asyncio.to_thread runs _call_openai on a worker thread and the handler
\* only awaits it.
loop_blocked == FALSE

\* ---------------------------------------------------------------- client
\* A client's HTTP request reaches the listener: start() serves it through
\* _http_response (process_request) and, when that returns None, through the
\* library's opening handshake, which starts _handle_connection.
\* Connections are numbered in the order their requests arrive.
Request(c, request, dev) ==
    /\ ~loop_blocked
    /\ pc[c] = "connecting"
    /\ \A b \in Conns : b < c => pc[b] # "connecting"
    /\ IF http_response(request) # None
       THEN /\ http' = [http EXCEPT ![c] = [request |-> RequestKind(request),
                                            response |-> "200 Gateway is running"]]
            /\ pc' = [pc EXCEPT ![c] = "no session"]
            /\ UNCHANGED <<device_id, transport>>
       ELSE IF ~request.websocket
       THEN /\ http' = [http EXCEPT ![c] = [request |-> RequestKind(request),
                                            response |-> "handshake failed"]]
            /\ pc' = [pc EXCEPT ![c] = "no session"]
            /\ UNCHANGED <<device_id, transport>>
       ELSE /\ http' = [http EXCEPT ![c] = [request |-> RequestKind(request),
                                            response |-> "101 Switching Protocols"]]
            /\ pc' = [pc EXCEPT ![c] = "gate"]
            /\ device_id' = [device_id EXCEPT ![c] = dev]
            /\ transport' = [transport EXCEPT ![c] = "open"]
    /\ UNCHANGED <<policy, received, nread, sent, auth, pool>>

\* The client sends one more frame on its open connection.
ClientSend(c, frame) ==
    /\ pc[c] \in {"gate", "recv", "to_thread"}
    /\ transport[c] = "open"
    /\ SumReceived(Conns) < MaxFrames
    /\ received' = [received EXCEPT ![c] = Append(@, frame)]
    /\ UNCHANGED <<policy, http, pc, device_id, transport, nread, sent, auth, pool>>

\* The client closes its connection (or drops it) while the session is in its
\* receive loop or awaiting the backend.
ClientDisconnect(c) ==
    /\ pc[c] \in {"recv", "to_thread"}
    /\ transport[c] = "open"
    /\ transport' = [transport EXCEPT ![c] = "client closed"]
    /\ UNCHANGED <<policy, http, pc, device_id, received, nread, sent, auth, pool>>

\* --------------------------------------------------------------- session
\* Faulty variant: ConnectionClosed raised by send is swallowed and the handler
\* goes back to the receive loop.
send_swallowing_closed(c, payload, fid) ==
    IF transport[c] = "open"
    THEN /\ sent' = [sent EXCEPT ![c] = Append(@, [frame |-> payload, re |-> fid])]
         /\ pc' = [pc EXCEPT ![c] = "recv"]
    ELSE /\ sent' = sent
         /\ pc' = [pc EXCEPT ![c] = "recv"]

\* websocket.send(json.dumps(payload)) from _handle_message, answering the
\* frame numbered fid, and where _handle_connection goes next: back to the
\* receive loop, or, send having raised ConnectionClosed on a closed
\* connection, through the except branch of line 95 to its end.
send(c, payload, fid) ==
    IF transport[c] = "open"
    THEN /\ sent' = [sent EXCEPT ![c] = Append(@, [frame |-> payload, re |-> fid])]
         /\ pc' = [pc EXCEPT ![c] = "recv"]
    ELSE /\ sent' = sent
         /\ pc' = [pc EXCEPT ![c] = "closed"]

\* Faulty variant: the return after close is missing, so a rejected connection falls
\* through to the receive loop.
reject_without_return(c, reason) ==
    /\ sent' = [sent EXCEPT ![c] = Append(@, [frame |-> error_payload(reason, None), re |-> 0])]
    /\ transport' = [transport EXCEPT ![c] = "server closed"]
    /\ pc' = [pc EXCEPT ![c] = "recv"]
    /\ auth' = [auth EXCEPT ![c] = "rejected"]

\* The rejection branches of _handle_connection: _send_error, close, return.
reject(c, reason) ==
    /\ sent' = [sent EXCEPT ![c] = Append(@, [frame |-> error_payload(reason, None), re |-> 0])]
    /\ transport' = [transport EXCEPT ![c] = "server closed"]
    /\ pc' = [pc EXCEPT ![c] = "closed"]
    /\ auth' = [auth EXCEPT ![c] = "rejected"]

\* _handle_connection from its start to the receive loop: the gate.
handle_connection(c) ==
    /\ ~loop_blocked
    /\ pc[c] = "gate"
    /\ LET verdict == gate(require_device_id, allowed_devices, device_id[c])
       IN  IF verdict = "accept"
           THEN /\ pc' = [pc EXCEPT ![c] = "recv"]
                /\ auth' = [auth EXCEPT ![c] = "accepted"]
                /\ UNCHANGED <<sent, transport>>
           ELSE reject(c, verdict)
    /\ UNCHANGED <<policy, http, device_id, received, nread, pool>>

\* Faulty variant: ConnectionClosed is swallowed inside the loop, which goes on
\* taking messages after the handler has ended.
loop_ready_after_close(c) == pc[c] \in {"recv", "closed"}

\* Faulty variant: the loop takes the next message while a handler still awaits the
\* backend (handlers spawned as tasks instead of awaited).
loop_ready_pipelined(c) == pc[c] \in {"recv", "to_thread"}

\* The receive loop is at `async for message in websocket`: every message is
\* awaited to the end of _handle_message before the next one is taken.
loop_ready(c) == pc[c] = "recv"

\* One asyncio.to_thread(self._call_openai, messages) of the _handle_message
\* that handles frame fid of connection c, with the request_id that
\* invocation holds in its local variable while it awaits the result.
Call(c, fid, n) ==
    [conn |-> c, fid |-> fid, messages |-> n.messages, request_id |-> n.request_id]

\* Faulty variant: a call dispatched while every worker is busy is dropped, and
\* the handler awaits it all the same.
to_thread_dropped_when_busy(c, fid, n) ==
    /\ queue' = IF Cardinality(running) < PoolSize THEN Append(queue, Call(c, fid, n))
                ELSE queue
    /\ calls' = calls \cup {Call(c, fid, n)}
    /\ pc' = [pc EXCEPT ![c] = "to_thread"]
    /\ UNCHANGED <<sent, running>>

\* Faulty variant: the call is handed to the pool and not awaited.
to_thread_not_awaited(c, fid, n) ==
    /\ queue' = Append(queue, Call(c, fid, n))
    /\ calls' = calls \cup {Call(c, fid, n)}
    /\ pc' = [pc EXCEPT ![c] = "recv"]
    /\ UNCHANGED <<sent, running>>

\* _handle_message hands _call_openai to the thread pool and awaits it.
to_thread(c, fid, n) ==
    /\ queue' = Append(queue, Call(c, fid, n))
    /\ calls' = calls \cup {Call(c, fid, n)}
    /\ pc' = [pc EXCEPT ![c] = "to_thread"]
    /\ UNCHANGED <<sent, running>>

\* The receive loop yields the next message and _handle_message runs up to
\* its first suspension: it answers an invalid frame with an error, or hands
\* _call_openai to the thread pool and awaits it.
\* (A message buffered before the connection closed may still be yielded:
\* whether it is depends on the websockets release, so both are allowed.)
handle_message(c) ==
    /\ ~loop_blocked
    /\ loop_ready(c)
    /\ nread[c] < Len(received[c])
    /\ LET fid == nread[c] + 1
           n == normalize(received[c][fid])
       IN  /\ nread' = [nread EXCEPT ![c] = fid]
           /\ IF IsError(n)
              THEN /\ send(c, error_payload(n.error, None), fid)
                   /\ UNCHANGED pool
              ELSE to_thread(c, fid, n)
    /\ UNCHANGED <<policy, http, device_id, transport, received, auth>>

\* The receive loop finds the connection closed: the async for ends
\* (ConnectionClosedOK) or raises ConnectionClosed, caught at line 95.
connection_closed(c) ==
    /\ ~loop_blocked
    /\ pc[c] = "recv"
    /\ transport[c] # "open"
    /\ pc' = [pc EXCEPT ![c] = "closed"]
    /\ UNCHANGED <<policy, http, device_id, transport, received, nread, sent, auth, pool>>

\* ----------------------------------------------------------- thread pool
\* Faulty variant: a thread is started for every call, however many are running.
worker_start_unbounded ==
    /\ queue # <<>>
    /\ running' = running \cup {Head(queue)}
    /\ queue' = Tail(queue)
    /\ UNCHANGED <<policy, http, pc, device_id, transport, received, nread, sent, auth,
                   calls>>

\* A free worker thread of the default executor takes the oldest queued call.
worker_start ==
    /\ queue # <<>>
    /\ Cardinality(running) < PoolSize
    /\ running' = running \cup {Head(queue)}
    /\ queue' = Tail(queue)
    /\ UNCHANGED <<policy, http, pc, device_id, transport, received, nread, sent, auth,
                   calls>>

\* Faulty variant: the failure is logged and not answered.
backend_failed_silent(c, call, exc) ==
    /\ pc' = [pc EXCEPT ![c] = "recv"]
    /\ UNCHANGED <<sent, transport>>

\* Faulty variant: the error frame is sent without the request_id.
backend_failed_uncorrelated(c, call, exc) ==
    /\ send(c, error_payload(BACKEND_FAILED \o exc, None), call.fid)
    /\ UNCHANGED transport

\* Faulty variant: no except branch, the exception ends _handle_connection and the
\* library closes the connection.
backend_failed_uncaught(c, call, exc) ==
    /\ pc' = [pc EXCEPT ![c] = "closed"]
    /\ transport' = [transport EXCEPT ![c] =
                        IF @ = "open" THEN "server closed" ELSE @]
    /\ UNCHANGED sent

\* Faulty variant: a backend failure is treated as fatal and every connection of
\* the server is closed.
backend_failed_closes_all(c, call, exc) ==
    /\ pc' = [pc EXCEPT ![c] = "closed"]
    /\ transport' = [d \in Conns |-> IF transport[d] = "open" THEN "server closed"
                                     ELSE transport[d]]
    /\ UNCHANGED sent

\* The except branch of _handle_message: the failure is logged and answered
\* with an error frame carrying the request_id; the handler returns normally.
backend_failed(c, call, exc) ==
    /\ send(c, error_payload(BACKEND_FAILED \o exc, call.request_id), call.fid)
    /\ UNCHANGED transport

\* Faulty variant: the device id is kept in an attribute of the server, which
\* every new connection overwrites.
backend_succeeded_shared_device(c, call, response_text) ==
    /\ LET last == CHOOSE d \in Conns :
                        /\ pc[d] # "connecting"
                        /\ \A e \in Conns : e > d => pc[e] = "connecting"
       IN  send(c, response_payload(device_id[last], response_text, call.request_id),
                call.fid)
    /\ UNCHANGED transport

\* _handle_message after a successful call: the response frame.
backend_succeeded(c, call, response_text) ==
    /\ send(c, response_payload(device_id[c], response_text, call.request_id), call.fid)
    /\ UNCHANGED transport

\* The worker's _call_openai returns or raises, and _handle_message resumes
\* after its await.
backend_return(c, upstream) ==
    /\ \E call \in running :
         /\ call.conn = c
         /\ running' = running \ {call}
         /\ LET result == call_openai(call.messages, upstream)
            IN  IF Raised(result)
                THEN backend_failed(c, call, result.raised)
                ELSE backend_succeeded(c, call, result.text)
    /\ UNCHANGED <<policy, http, device_id, received, nread, auth, queue, calls>>

\* Several connections at once, with few kinds of frame.
Next ==
    \/ \E c \in Conns, request \in FewRequests, dev \in {None, Str("A"), Str("B"), Str("C")} :
         Request(c, request, dev)
    \/ \E c \in Conns, frame \in FewFrames : ClientSend(c, frame)
    \/ \E c \in Conns : ClientDisconnect(c)
    \/ \E c \in Conns : handle_connection(c)
    \/ \E c \in Conns : handle_message(c)
    \/ \E c \in Conns : connection_closed(c)
    \/ worker_start
    \/ \E c \in Conns, upstream \in FewUpstreams : backend_return(c, upstream)

Spec == Init /\ [][Next]_vars

\* The gateway's own steps are taken when they can be: the event loop runs
\* every handler that is ready, the pool starts a queued call when a worker
\* is free, and every backend call returns or raises in the end. Nothing is
\* assumed of the clients.
Fairness ==
    /\ WF_vars(worker_start)
    /\ \A c \in Conns :
         /\ WF_vars(handle_connection(c))
         /\ WF_vars(handle_message(c))
         /\ WF_vars(connection_closed(c))
         /\ WF_vars(\E upstream \in FewUpstreams : backend_return(c, upstream))

SpecFair == Init /\ [][Next]_vars /\ Fairness

\* One connection, with every kind of frame and of upstream behaviour.
NextSession ==
    \/ \E request \in Requests, dev \in DeviceIds : Request(1, request, dev)
    \/ \E frame \in Frames : ClientSend(1, frame)
    \/ ClientDisconnect(1)
    \/ handle_connection(1)
    \/ handle_message(1)
    \/ connection_closed(1)
    \/ worker_start
    \/ \E upstream \in Upstreams : backend_return(1, upstream)

SpecSession == InitSession /\ [][NextSession]_vars

\* One connection to the gateway with the strict policy, its client sending
\* the text frames that exercise the normalizer.
NextEnvelope ==
    \/ \E dev \in {Str("A"), Str("C")} :
            Request(1, [connection |-> "Upgrade", websocket |-> TRUE], dev)
    \/ \E frame \in EnvelopeFrames : ClientSend(1, frame)
    \/ ClientDisconnect(1)
    \/ handle_connection(1)
    \/ handle_message(1)
    \/ connection_closed(1)
    \/ worker_start
    \/ \E upstream \in FewUpstreams : backend_return(1, upstream)

SpecEnvelope == Init /\ [][NextEnvelope]_vars

\* ================================================================ claims
\* The connection was upgraded and its gate has decided.
PastGate(c) == auth[c] # "none"

\* The policy admits the device id: the identifier is there when one is
\* required, and on the allow-list when there is one.
PolicyAdmits(dev) ==
    /\ require_device_id => dev \notin {None, Str("")}
    /\ allowed_devices # {} => (dev.t = "str" /\ dev.s \in allowed_devices)

\* The to_thread calls of connection c that have not returned yet.
InFlight(c) ==
    {call \in running : call.conn = c} \cup
    {queue[i] : i \in {j \in 1..Len(queue) : queue[j].conn = c}}

\* C1: a backend call is dispatched for a connection only after the gate has
\* accepted it: every call ever dispatched, queued or running belongs to a
\* connection the gate accepted and whose device id the policy admits.
C1_BackendOnlyAfterAuth ==
    \A c \in Conns :
        ((\E call \in calls : call.conn = c) \/ InFlight(c) # {} \/ pc[c] = "to_thread")
            => (auth[c] = "accepted" /\ PolicyAdmits(device_id[c]))

\* A backend call was dispatched for one connection while another one, which
\* had also sent a frame, was rejected.
C1_Witness ==
    \E a, b \in Conns :
        /\ \E call \in calls : call.conn = a
        /\ auth[b] = "rejected"
        /\ Len(received[b]) > 0

\* The two rejection cases of the gate, read off the policy.
MustReject(c) ==
    \/ require_device_id /\ device_id[c] = None
    \/ allowed_devices # {} /\ NotInAllowed(device_id[c], allowed_devices)

\* C2: a rejected connection gets exactly one error frame and is closed; none
\* of its frames is read, no backend call is made for it, nothing else is sent.
C2_RejectionIsFinal ==
    \A c \in Conns :
        (PastGate(c) /\ (auth[c] = "rejected" \/ MustReject(c))) =>
            /\ Len(sent[c]) = 1
            /\ sent[c][1].frame \in
                 {error_payload(MISSING_DEVICE_ID, None), error_payload(UNAUTHORIZED_DEVICE_ID, None)}
            /\ sent[c][1].re = 0
            /\ transport[c] = "server closed"
            /\ pc[c] = "closed"
            /\ nread[c] = 0
            /\ ~\E call \in calls : call.conn = c
            /\ InFlight(c) = {}

\* An unauthorized device was rejected although it had already sent a frame,
\* and a connection without device id was rejected too.
C2_Witness ==
    \E a, b \in Conns :
        /\ auth[a] = "rejected" /\ device_id[a] = Str("C") /\ Len(received[a]) > 0
        /\ auth[b] = "rejected" /\ device_id[b] = None

\* The three-step reference of the gate; `supplied` says which header values
\* count as a supplied identifier.
ReferenceAccepts(require, allowed, dev, supplied) ==
    IF require /\ ~supplied THEN FALSE
    ELSE IF allowed # {} /\ ~(dev.t = "str" /\ dev.s \in allowed) THEN FALSE
    ELSE TRUE

\* C3 as stated: the gate's decision equals the three-step reference, an id
\* being supplied whenever the device-id header is present (the empty string
\* is a supplied id).
C3_GateEqualsReference ==
    \A c \in Conns :
        PastGate(c) =>
            ((auth[c] = "accepted") <=>
                ReferenceAccepts(require_device_id, allowed_devices, device_id[c],
                                 device_id[c] # None))

\* C3 amended: the gate's decision equals the three-step reference in which an
\* absent header and an empty header value both count as no id supplied.
C3_GateEqualsReferenceNonEmpty ==
    \A c \in Conns :
        PastGate(c) =>
            ((auth[c] = "accepted") <=>
                ReferenceAccepts(require_device_id, allowed_devices, device_id[c],
                                 device_id[c] \notin {None, Str("")}))

\* An empty device id was rejected as missing by a gateway without allow-list.
C3_Witness ==
    \E c \in Conns :
        /\ require_device_id /\ allowed_devices = {}
        /\ device_id[c] = Str("")
        /\ auth[c] = "rejected"
        /\ sent[c][1].frame.message = MISSING_DEVICE_ID

\* ---- the frame classes of the protocol, read off the frame itself
JsonOf(frame) == json_loads(frame.data)

\* A text frame whose JSON is not an object.
NonObjectJson(frame) ==
    ~frame.bytes /\ JsonOf(frame) # JSONDecodeError /\ JsonOf(frame).t # "dict"

\* The envelope of a text frame: its JSON object, or {text: <raw>}.
Envelope(frame) ==
    IF JsonOf(frame) = JSONDecodeError THEN [text |-> Str(frame.data)] ELSE JsonOf(frame).d

\* A text frame with no messages and no non-empty text, content or prompt.
MissingContent(frame) ==
    /\ ~frame.bytes
    /\ ~NonObjectJson(frame)
    /\ \A k \in {"messages", "text", "content", "prompt"} :
         k \notin DOMAIN Envelope(frame) \/ ~Truthy(Envelope(frame)[k])

FailsValidation(frame) == frame.bytes \/ NonObjectJson(frame) \/ MissingContent(frame)

ValidationError(frame) ==
    IF frame.bytes THEN ONLY_TEXT
    ELSE IF NonObjectJson(frame) THEN INVALID_FORMAT
    ELSE MISSING_CONTENT

\* The frame is a JSON object with a request_id member.
SuppliesRequestId(frame) ==
    ~frame.bytes /\ ~NonObjectJson(frame) /\ "request_id" \in DOMAIN Envelope(frame)

SuppliedRequestId(frame) == Envelope(frame).request_id

TIMED_OUT == BACKEND_FAILED \o "Request timed out."

\* The connection was accepted and its client has not gone away.
StaysOpen(c) == auth[c] = "accepted" /\ transport[c] # "client closed"

\* C4: on an accepted connection that stays open every frame read has got
\* exactly one frame in reply, a response or an error, except the one whose
\* backend call is in flight; and nothing else was sent.
C4_OneReplyPerFrame ==
    \A c \in Conns :
        StaysOpen(c) =>
            /\ Len(sent[c]) = nread[c] - (IF pc[c] = "to_thread" THEN 1 ELSE 0)
            /\ \A i \in 1..Len(sent[c]) :
                 /\ sent[c][i].re = i
                 /\ sent[c][i].frame.type \in {"response", "error"}

\* An open connection on which an invalid frame got its error and a valid
\* frame its response.
C4_Witness ==
    \E c \in Conns :
        /\ StaysOpen(c)
        /\ Len(sent[c]) = 2
        /\ sent[c][1].frame.type = "error"
        /\ sent[c][2].frame.type = "response"

\* Every frame sent with a request_id carries the one its own inbound frame
\* supplied.
RequestIdsAreEchoes ==
    \A c \in Conns : \A i \in 1..Len(sent[c]) :
        "request_id" \in DOMAIN sent[c][i].frame =>
            /\ sent[c][i].re > 0
            /\ SuppliesRequestId(received[c][sent[c][i].re])
            /\ sent[c][i].frame.request_id = SuppliedRequestId(received[c][sent[c][i].re])

C6_ProtocolErrorCorrelated ==
    \A c \in Conns : \A i \in 1..Len(sent[c]) :
        LET k == sent[c][i].re
        IN  (k > 0 /\ (NonObjectJson(received[c][k]) \/ MissingContent(received[c][k]))
               /\ SuppliesRequestId(received[c][k])
               /\ Truthy(SuppliedRequestId(received[c][k])))
               => /\ "request_id" \in DOMAIN sent[c][i].frame
                  /\ sent[c][i].frame.request_id = SuppliedRequestId(received[c][k])

\* C7: a backend failure closes nothing. An accepted connection whose client
\* has not gone away is open with its session in the receive loop, every valid
\* frame it has read was dispatched to the backend, and each of them whose call
\* has returned was answered with a response or with the backend error.
C7_BackendFailureIsPerRequest ==
    \A c \in Conns :
        StaysOpen(c) =>
            /\ transport[c] = "open"
            /\ pc[c] \in {"recv", "to_thread"}
            /\ \A k \in 1..nread[c] :
                 ~FailsValidation(received[c][k]) =>
                    /\ \E call \in calls : call.conn = c /\ call.fid = k
                    /\ (k < nread[c] \/ pc[c] = "recv") =>
                          /\ k <= Len(sent[c])
                          /\ sent[c][k].re = k
                          /\ \/ sent[c][k].frame.type = "response"
                             \/ /\ sent[c][k].frame.type = "error"
                                /\ sent[c][k].frame.message = TIMED_OUT

\* A backend failure was answered with an error frame and the next frame of
\* the same, still open connection with a response.
C7_Witness ==
    \E c \in Conns :
        /\ StaysOpen(c)
        /\ Len(sent[c]) = 2
        /\ sent[c][1].frame.type = "error" /\ sent[c][1].frame.message = TIMED_OUT
        /\ sent[c][2].frame.type = "response"

\* The reply fits the frame it answers, whatever came before that frame.
ReplyFits(reply, frame, dev) ==
    IF FailsValidation(frame)
    THEN reply = [type |-> "error", message |-> ValidationError(frame)]
    ELSE \/ /\ reply.type = "response"
            /\ reply.device_id = dev
            /\ reply.content \in {Str(""), Str("pong")}
         \/ /\ reply.type = "error"
            /\ reply.message = TIMED_OUT

\* C8: a frame that fails validation is never dispatched to the backend; while
\* the client stays, it is answered with the one error frame of its class and
\* the session stays in its loop; and every reply fits the frame it answers,
\* so the frames after an invalid one are handled as if it had not been sent.
C8_ValidationFailureIsPerFrame ==
    \A c \in Conns :
        /\ \A k \in 1..nread[c] :
             FailsValidation(received[c][k]) =>
                /\ ~\E call \in calls : call.conn = c /\ call.fid = k
                /\ StaysOpen(c) =>
                      /\ transport[c] = "open"
                      /\ pc[c] \in {"recv", "to_thread"}
                      /\ k <= Len(sent[c])
                      /\ sent[c][k] = [frame |-> [type |-> "error",
                                                  message |-> ValidationError(received[c][k])],
                                       re |-> k]
        /\ \A i \in 1..Len(sent[c]) :
             sent[c][i].re > 0 =>
                ReplyFits(sent[c][i].frame, received[c][sent[c][i].re], device_id[c])

\* A binary frame got the only-text error and the frame after it a response.
C8_Witness ==
    \E c \in Conns :
        /\ StaysOpen(c)
        /\ Len(sent[c]) = 2
        /\ received[c][1].bytes
        /\ sent[c][1].frame = [type |-> "error", message |-> ONLY_TEXT]
        /\ sent[c][2].frame.type = "response"

\* C9: on each connection the replies are sent in the order in which their
\* frames arrived.
C9_RepliesInArrivalOrder ==
    \A c \in Conns : \A i, j \in 1..Len(sent[c]) :
        i < j => sent[c][i].re < sent[c][j].re

\* Two frames of one connection were answered, the first by a backend
\* response, while another connection had been accepted.
C9_Witness ==
    \E c, d \in Conns :
        /\ c # d
        /\ auth[d] = "accepted"
        /\ Len(sent[c]) = 2
        /\ sent[c][1].frame.type = "response"
        /\ sent[c][1].re = 1 /\ sent[c][2].re = 2

\* C10: a connection has at most one backend call in flight, the one of the
\* frame it read last: no later frame is read before that call has returned.
C10_OneCallInFlight ==
    \A c \in Conns :
        /\ Cardinality(InFlight(c)) <= 1
        /\ \A call \in InFlight(c) : pc[c] = "to_thread" /\ call.fid = nread[c]
        /\ pc[c] = "to_thread" => InFlight(c) # {}

\* A call is in flight while the next frame of its connection waits unread.
C10_Witness ==
    \E c \in Conns :
        /\ InFlight(c) # {}
        /\ Len(received[c]) > nread[c]

TypeOK ==
    /\ http \in [Conns -> [request : {"none", "websocket upgrade", "other"},
                           response : {"none", "200 Gateway is running", "handshake failed",
                                       "101 Switching Protocols"}]]
    /\ pc \in [Conns -> {"connecting", "no session", "gate", "recv", "to_thread", "closed"}]
    /\ transport \in [Conns -> {"none", "open", "client closed", "server closed"}]
    /\ \A c \in Conns : nread[c] <= Len(received[c])

Queued == {queue[i] : i \in 1..Len(queue)}

\* C12: no more backend calls run at a time than the pool has workers, and a
\* call whose handler awaits it is held by the pool, in its queue or on one
\* of its workers, never in both and never in neither.
C12_PoolIsBounded ==
    /\ Cardinality(running) <= PoolSize
    /\ Queued \cap running = {}
    /\ Queued \cup running \subseteq calls
    /\ Cardinality(Queued) = Len(queue)
    /\ \A c \in Conns :
         pc[c] = "to_thread" =>
            \E call \in Queued \cup running : call.conn = c /\ call.fid = nread[c]

\* A call is queued while every worker is busy with another call.
C12_Witness ==
    /\ queue # <<>>
    /\ Cardinality(running) = PoolSize
    /\ PoolSize > 0

\* The state of the session of a connection, from where its handler stands:
\* before the upgrade, at the admission gate, in the receive loop (waiting
\* for a message or for the backend), or finished. A request answered
\* without an upgrade never has a session.
SessionState(p) ==
    CASE p = "connecting" -> "CONNECTING"
      [] p = "gate" -> "AUTHENTICATING"
      [] p \in {"recv", "to_thread"} -> "OPEN"
      [] p = "closed" -> "CLOSED"
      [] OTHER -> "NONE"

SessionMoves ==
    {<<"CONNECTING", "AUTHENTICATING">>, <<"CONNECTING", "NONE">>,
     <<"AUTHENTICATING", "OPEN">>, <<"AUTHENTICATING", "CLOSED">>,
     <<"OPEN", "CLOSED">>}

\* C13: a session moves only CONNECTING -> AUTHENTICATING -> OPEN -> CLOSED:
\* from AUTHENTICATING to OPEN when the gate accepts and straight to CLOSED
\* when it rejects, from OPEN to OPEN or CLOSED, and never out of CLOSED;
\* once CLOSED it reads no frame, dispatches no call and sends no frame.
C13_SessionStateMachine ==
    [][\A c \in Conns :
        LET from == SessionState(pc[c])
            to == SessionState(pc'[c])
        IN /\ from = to \/ <<from, to>> \in SessionMoves
           /\ (from = "AUTHENTICATING" /\ to = "OPEN") => auth'[c] = "accepted"
           /\ (from = "AUTHENTICATING" /\ to = "CLOSED") => auth'[c] = "rejected"
           /\ from = "CLOSED" =>
                /\ nread'[c] = nread[c]
                /\ sent'[c] = sent[c]
                /\ {call \in calls' : call.conn = c} = {call \in calls : call.conn = c}
                /\ auth'[c] = auth[c]]_vars

\* A session that was OPEN and handled a frame is CLOSED with a frame of its
\* client left unread.
C13_Witness ==
    \E c \in Conns :
        /\ pc[c] = "closed"
        /\ auth[c] = "accepted"
        /\ nread[c] >= 1
        /\ nread[c] < Len(received[c])

\* ---- the reference normalizer, on the envelope of a frame
HasValue(env, k) == k \in DOMAIN env /\ Truthy(env[k])

UserTurn(content) == List(<<Dict([role |-> Str("user"), content |-> content])>>)

NoTurns == [t |-> "missing content"]

ReferenceTurns(env) ==
    IF HasValue(env, "messages") /\ env.messages.t = "list" THEN env.messages
    ELSE IF HasValue(env, "text") THEN UserTurn(env.text)
    ELSE IF HasValue(env, "content") THEN UserTurn(env.content)
    ELSE IF HasValue(env, "prompt") THEN UserTurn(env.prompt)
    ELSE NoTurns

\* The frames an accepted session has handled.
Handled == {<<c, k>> \in Conns \X (1..MaxFrames) : auth[c] = "accepted" /\ k <= nread[c]}

CallsFor(c, k) == {call \in calls : call.conn = c /\ call.fid = k}

RepliesTo(c, k) == {sent[c][i].frame : i \in {j \in 1..Len(sent[c]) : sent[c][j].re = k}}

\* The frame was refused with this error and nothing else, and the backend
\* was not invoked for it.
RefusedWith(c, k, message) ==
    /\ CallsFor(c, k) = {}
    /\ RepliesTo(c, k) \subseteq {[type |-> "error", message |-> message]}
    /\ transport[c] = "open" => RepliesTo(c, k) # {}

\* C14: for every frame that is a JSON object, the turns handed to the
\* backend are those of the reference normalizer: a non-empty messages list
\* as it is, else (messages absent, empty or not a list) the first non-empty
\* of text, content and prompt as one user turn; with none of them the frame
\* is refused with the missing-content error and the backend is not invoked.
C14_TurnsEqualReference ==
    \A h \in Handled :
        LET c == h[1]
            k == h[2]
            frame == received[c][k]
        IN  (~frame.bytes /\ JsonOf(frame) # JSONDecodeError /\ JsonOf(frame).t = "dict") =>
                IF ReferenceTurns(JsonOf(frame).d) = NoTurns
                THEN RefusedWith(c, k, MISSING_CONTENT)
                ELSE /\ CallsFor(c, k) # {}
                     /\ \A call \in CallsFor(c, k) :
                            call.messages = ReferenceTurns(JsonOf(frame).d)

Session(c) ==
    <<http[c], pc[c], device_id[c], transport[c], auth[c], received[c], nread[c],
      sent[c], InFlight(c), CallsFor(c, nread[c])>>

\* C16: when the client goes away while its backend call is in flight, the
\* call is not cancelled: it stays with the pool and the handler resumes only
\* when a worker has run it; its result is then sent on no connection, the
\* session is CLOSED, and no other session is touched.
C16_DisconnectDuringCall ==
    /\ [](\A c \in Conns :
            (pc[c] = "to_thread" /\ transport[c] = "client closed") => InFlight(c) # {})
    /\ [][\A c \in Conns :
            (pc[c] = "to_thread" /\ transport[c] = "client closed" /\ pc'[c] # "to_thread") =>
                /\ \E call \in running : call.conn = c /\ call \notin running'
                /\ sent' = sent
                /\ pc'[c] = "closed"
                /\ \A d \in Conns \ {c} : Session(d)' = Session(d)]_vars

\* A session is CLOSED after its client went away during the call for its
\* last frame: the call has run, no reply to the frame was sent, and another
\* session is in its receive loop.
C16_Witness ==
    \E c \in Conns :
        /\ pc[c] = "closed"
        /\ transport[c] = "client closed"
        /\ nread[c] >= 1
        /\ CallsFor(c, nread[c]) # {}
        /\ InFlight(c) = {}
        /\ RepliesTo(c, nread[c]) = {}
        /\ \E d \in Conns \ {c} : pc[d] \in {"recv", "to_thread"}

\* The connections that may send the next upgrade request.
NextToConnect == {c \in Conns : pc[c] = "connecting" /\ \A b \in 1..(c - 1) : pc[b] # "connecting"}

\* C17: every step changes the session of at most one connection and leaves
\* the policy as it is; and whatever has happened in the sessions so far, the
\* listener still takes the next request.
C17_SessionsAreIsolated ==
    /\ [][/\ Cardinality({c \in Conns : Session(c)' # Session(c)}) <= 1
          /\ policy' = policy]_vars
    /\ [](\A c \in NextToConnect :
            ENABLED (\E request \in Requests, dev \in DeviceIds : Request(c, request, dev)))

\* One session ended on a failure (a rejection, or a send to a client that
\* had gone away) while another stays open with a call in flight.
C17_Witness ==
    \E c, d \in Conns :
        /\ c # d
        /\ pc[c] = "closed"
        /\ auth[c] = "rejected" \/ transport[c] = "client closed"
        /\ pc[d] = "to_thread"
        /\ transport[d] = "open"
        /\ InFlight(d) # {}

\* C18: every request that is not a WebSocket upgrade request is answered
\* with the health check (HTTP 200, "Gateway is running") and gets no
\* session; every WebSocket upgrade request is upgraded and gets a session,
\* and is never answered with the health check.
C18_ListenerRoutesRequests ==
    \A c \in Conns :
        /\ http[c].request = "other" =>
              /\ http[c].response = "200 Gateway is running"
              /\ pc[c] = "no session"
        /\ http[c].request = "websocket upgrade" =>
              /\ http[c].response = "101 Switching Protocols"
              /\ pc[c] \in {"gate", "recv", "to_thread", "closed"}

\* The response frames sent on a connection, each with the frame it answers.
Responses(c) ==
    {sent[c][i] : i \in {j \in 1..Len(sent[c]) : sent[c][j].frame.type = "response"}}

Settled ==
    /\ queue = <<>>
    /\ \A c \in Conns :
         /\ pc[c] # "to_thread"
         /\ pc[c] = "recv" => \A k \in 1..Len(received[c]) : RepliesTo(c, k) # {}

\* C20: with the gateway's steps taken fairly and every backend call
\* returning or failing in the end, every frame received on an OPEN
\* connection is followed by its reply or by the session being CLOSED, a
\* queued call comes to run, and no handler awaits its call for ever: time
\* and again nothing is owed (a reply once sent and a session once CLOSED
\* stay so, so that whatever is owed at some point is settled later).
C20_EveryFrameIsSettled == []<>Settled

\* A call waits in the queue while every worker is busy, its handler awaiting
\* it on an open connection.
C20_Witness ==
    \E c \in Conns :
        /\ \E call \in Queued : call.conn = c
        /\ Cardinality(running) = PoolSize
        /\ pc[c] = "to_thread"
        /\ transport[c] = "open"

====
